---- MODULE Spec2Model ----
(***************************************************************************)
(* A model of gerrit_projects/projects.py: the batch entry point main and  *)
(* the components it drives (create_gerrit_project, create_local_mirror,   *)
(* make_local_copy, update_local_copy, push_to_gerrit, sync_upstream,      *)
(* process_acls with fetch_config, copy_acl_config, create_groups_file and *)
(* push_acl_config).                                                       *)
(*                                                                         *)
(* The review server, the file system and the git working copies are the   *)
(* environment: a server call or a shell command may fail, which is a      *)
(* nondeterministic choice of the action that issues it.                   *)
(***************************************************************************)
EXTENDS Integers, Sequences, FiniteSets, TLC

\* ------------------------------------------------------------------ bounds
\* Number of declared projects in projects.yaml (their names are 1..MaxProjects,
\* declared in that order).
MaxProjects == 2

Names == 1..MaxProjects

\* ------------------------------------------------------------- python values
\* A python value as far as == can tell values apart: a dict never equals a str.
PyDict(n) == [tag |-> "dict", val |-> n]
PyStr(n) == [tag |-> "str", val |-> n]

\* x in list, by python's ==.
PyIn(x, list) == \E i \in 1..Len(list) : list[i] = x

\* The push actions make_local_copy returns.
PushNone == "None"
PushCopyHeads == "push %s +refs/copy/heads/*:refs/heads/*"
PushHead == "push %s HEAD:refs/heads/master"

VARIABLES
    conf_exists,         \* os.path.exists(args.conf)
    project_conf_exists, \* os.path.exists(args.project_conf)
    args_projects,       \* args.projects: the names given on the command line
    configs_list,        \* registry.configs_list: the declared sections, in order
    gerrit,              \* the review server: its projects, those with refs/heads/master, those described
    mirror,              \* per project, what is at LOCAL_GIT_DIR/<name>.git
    repo,                \* per project, the working copy at CACHE_DIR/<name>
    project_list,        \* the snapshot gerrit.listProjects() returned
    wrapper,             \* the file make_ssh_wrapper creates: "none", "present", "removed"
    unlinks,             \* how many times os.unlink(ssh_env['GIT_SSH']) ran
    pc,                  \* main's position
    idx,                 \* index in configs_list of the section the loop is at
    project_created,     \* main's local of that name
    push_string,         \* main's local of that name; "unbound" before its first assignment
    acl_found,           \* for the section at idx: is acl_config there, relative to cwd / in ACL_DIR
    trace,               \* the calls and commands issued for the section at idx, in order
    processed,           \* names whose processing went past the no-gerrit test
    caught,              \* names whose processing ended in main's except clause
    touched,             \* names for which a server call, command or file operation was issued
    exit_status,         \* the process's exit status; -1 while running
    failed,              \* whether a call or command of the run failed
    run,                 \* the number of the run of main under way
    pending,             \* names an earlier run created on the server and left without master
    \* ---- one call of process_acls (a policy sync session)
    a_pc,                \* process_acls's position
    template,            \* whether acl_config is a file of ACL_DIR
    x,                   \* fetch_config's loop variable
    status,              \* fetch_config's local of that name; -1 before its first assignment
    output,              \* fetch_config's local of that name
    fetch_results,       \* the statuses of the metadata-ref fetches made, in order
    locate_results,      \* what each attempt to locate project.config came to, in order
    wc,                  \* the working copy: its branch, project.config, groups file, staged files
    meta,                \* the server: its project.config on refs/meta/config, its groups with a UUID
    uuids,               \* create_groups_file's dict of that name, as (group, uuid) pairs
    line_no,             \* the line of project.config create_groups_file is at
    steps,               \* the steps of the session taken, in order
    exc,                 \* the exception the session raised; "none" if none
    \* ---- one working copy, followed at the level of its remotes and branches
    c_pc,                \* which of update_local_copy and sync_upstream have run on it
    opts,                \* the project's options and what it finds on the network
    copy,                \* the working copy: its remotes, branches and tracking refs
    first,               \* the working copy as the first update_local_copy left it
    listing,             \* the lines of "git branch -a" that sync_upstream read
    ops,                 \* the git commands the last call issued, in order
    \* ---- the process environment, followed over calls of run_command
    e_calls,             \* how many calls of run_command were made
    environ,             \* os.environ
    original,            \* os.environ before the first call
    overlay,             \* the env argument of the last call
    ran_with             \* the environment the last call's command was started with

\* What no step of a run of main changes: its inputs, the count of runs, and
\* the session of process_acls that is followed on its own.
inputs == <<conf_exists, project_conf_exists, args_projects, configs_list, run,
            pending, a_pc, template, x, status, output, fetch_results,
            locate_results, wc, meta, uuids, line_no, steps, exc,
            c_pc, opts, copy, first, listing, ops,
            e_calls, environ, original, overlay, ran_with>>
world == <<gerrit, mirror, repo>>
locals == <<project_created, push_string, acl_found>>
marks == <<trace, processed, caught, touched>>

vars == <<conf_exists, project_conf_exists, args_projects, configs_list, gerrit,
          mirror, repo, project_list, wrapper, unlinks, pc, idx, project_created,
          push_string, acl_found, trace, processed, caught, touched, exit_status,
          failed, run, pending, a_pc, template, x, status, output, fetch_results,
          locate_results, wc, meta, uuids, line_no, steps, exc,
          c_pc, opts, copy, first, listing, ops,
          e_calls, environ, original, overlay, ran_with>>

copy_vars == <<c_pc, opts, copy, first, listing, ops>>

env_vars == <<e_calls, environ, original, overlay, ran_with>>

run_vars == <<conf_exists, project_conf_exists, args_projects, configs_list, gerrit,
               mirror, repo, project_list, wrapper, unlinks, pc, idx, project_created,
               push_string, acl_found, trace, processed, caught, touched, exit_status,
               failed, run, pending>>

main_vars == <<run_vars, copy_vars, env_vars>>

acl_vars == <<a_pc, template, x, status, output, fetch_results, locate_results, wc,
              meta, uuids, line_no, steps, exc>>

\* --------------------------------------------------------------- the domain
\* A section of projects.yaml. upstream and description are TRUE when declared.
\* What else a no-gerrit section declares is never looked at: one such section
\* stands for them all.
Sections(n) ==
    [project : {n}, no_gerrit : {FALSE}, track_upstream : BOOLEAN,
     upstream : BOOLEAN, description : BOOLEAN]
    \cup
    [project : {n}, no_gerrit : {TRUE}, track_upstream : {TRUE},
     upstream : {TRUE}, description : {TRUE}]

ConfigLists == {l \in [Names -> UNION {Sections(n) : n \in Names}] :
                    \A n \in Names : l[n].project = n}

\* The command line's project arguments.
ArgLists == {<<>>} \cup {<<n>> : n \in Names}

\* A working copy: whether it is there, whether it has a remote named upstream,
\* whether it has a local master branch with a commit (content), and whether it
\* holds branch heads under refs/copy/heads (copy_heads).
NoRepo == [exists |-> FALSE, upstream_remote |-> FALSE, content |-> FALSE,
           copy_heads |-> FALSE]
RepoStates == {NoRepo} \cup
    [exists : {TRUE}, upstream_remote : BOOLEAN, content : {TRUE},
     copy_heads : {FALSE}]

GerritStates == {g \in [projects : SUBSET Names, master : SUBSET Names] :
                    g.master \subseteq g.projects}

NoAcl == [cwd |-> FALSE, dir |-> FALSE]

\* The section the loop is at, and its project's name.
section == configs_list[idx]
name == configs_list[idx].project

Did(o) == \E i \in 1..Len(trace) : trace[i] = o
Count(o) == Cardinality({i \in 1..Len(trace) : trace[i] = o})

\* Issue the calls/commands os (a sequence) for the section at idx.
Issue(os) == /\ trace' = trace \o os
             /\ touched' = touched \cup {name}

\* -------------------------------------------------------------------- Init
\* The state main starts a run in.
RunStart ==
    /\ project_list = {}
    /\ wrapper = "none"
    /\ unlinks = 0
    /\ pc = "start"
    /\ idx = 1
    /\ project_created = FALSE
    /\ push_string = "unbound"
    /\ acl_found = NoAcl
    /\ trace = <<>>
    /\ processed = {}
    /\ caught = {}
    /\ touched = {}
    /\ exit_status = -1
    /\ failed = FALSE

\* No session of process_acls under way.
NoFile == [there |-> FALSE, pairs |-> {}]
\* The working copy: the branch checked out, whether there is a branch config,
\* project.config as fetched to remotes/gerrit-meta/config (fetched) and in the
\* working tree (policy), the groups file, whether there are uncommitted
\* changes, and the temporary file the template was rendered to (rendered).
NoWc == [branch |-> "master", config_branch |-> FALSE, fetched |-> <<>>,
         policy |-> <<>>, groups |-> NoFile, dirty |-> FALSE, rendered |-> <<>>]
NoMeta == [policy |-> <<>>, groups_file |-> NoFile, groups |-> {},
           groups_before |-> {}, created |-> <<>>]
AclIdle ==
    /\ a_pc = "idle"
    /\ template = FALSE
    /\ x = 0
    /\ status = -1
    /\ output = ""
    /\ fetch_results = <<>>
    /\ locate_results = <<>>
    /\ wc = NoWc
    /\ meta = NoMeta
    /\ uuids = {}
    /\ line_no = 0
    /\ steps = <<>>
    /\ exc = "none"

\* No working copy followed at the level of its remotes and branches.
NoOpts == [track_upstream |-> FALSE, upstream |-> FALSE, upstream_prefix |-> FALSE,
           net |-> FALSE]
NoCopy == [remotes |-> {}, url |-> "absent", heads |-> {}, head |-> <<>>,
           tracking |-> {}, alias |-> {}]
CopyIdle ==
    /\ c_pc = "idle"
    /\ opts = NoOpts
    /\ copy = NoCopy
    /\ first = NoCopy
    /\ listing = <<>>
    /\ ops = <<>>

\* The process environment not followed: no variable is set.
EnvNames == {"GIT_SSH", "HOME", "PATH"}
NoEnv == [v \in EnvNames |-> "unset"]
EnvIdle ==
    /\ e_calls = 0
    /\ environ = NoEnv
    /\ original = NoEnv
    /\ overlay = NoEnv
    /\ ran_with = NoEnv

Init ==
    /\ run = 1
    /\ pending = {}
    /\ RunStart
    /\ AclIdle
    /\ CopyIdle
    /\ EnvIdle
    /\ conf_exists \in BOOLEAN
    /\ project_conf_exists \in BOOLEAN
    /\ IF conf_exists /\ project_conf_exists
       THEN /\ args_projects \in ArgLists
            /\ configs_list \in ConfigLists
            /\ gerrit \in GerritStates
            /\ mirror \in [Names -> {"absent", "mirror"}]
            /\ repo \in [Names -> RepoStates]
       ELSE /\ args_projects = <<>>
            /\ configs_list = <<>>
            /\ gerrit = [projects |-> {}, master |-> {}]
            /\ mirror = [n \in Names |-> "absent"]
            /\ repo = [n \in Names |-> NoRepo]

\* ------------------------------------------------------------ main, set-up
\* A main that does not look for its input files.
CheckFiles_unchecked ==
    /\ pc = "start"
    /\ pc' = "connect"
    /\ UNCHANGED <<inputs, world, project_list, wrapper, unlinks, idx, locals,
                   marks, failed, exit_status>>

\* main: for f in [args.conf, args.project_conf]: sys.exit(1) if it is missing.
CheckFiles ==
    /\ pc = "start"
    /\ IF conf_exists /\ project_conf_exists
       THEN pc' = "connect" /\ UNCHANGED exit_status
       ELSE pc' = "exited" /\ exit_status' = 1
    /\ UNCHANGED <<inputs, world, project_list, wrapper, unlinks, idx, locals,
                   marks, failed>>

\* main: the registry is loaded, the client built, project_list = gerrit.listProjects().
\* The call may raise, which nothing catches.
Connect ==
    /\ pc = "connect"
    /\ \/ /\ project_list' = gerrit.projects
          /\ pc' = "wrapper"
          /\ UNCHANGED <<exit_status, failed>>
       \/ /\ pc' = "exited"
          /\ exit_status' = 1
          /\ failed' = TRUE
          /\ UNCHANGED project_list
    /\ UNCHANGED <<inputs, world, wrapper, unlinks, idx, locals, marks>>

\* make_ssh_wrapper: the wrapper script is written to a fresh temporary file.
make_ssh_wrapper ==
    /\ pc = "wrapper"
    /\ wrapper' = "present"
    /\ pc' = "loop"
    /\ UNCHANGED <<inputs, world, project_list, unlinks, idx, locals, marks,
                   exit_status, failed>>

\* args.projects and project not in args.projects, project being the dict
\* dict(name=section['project']) and args.projects a list of strings.
NotSelected(n) ==
    /\ Len(args_projects) > 0
    /\ ~ PyIn(PyDict(n), [i \in 1..Len(args_projects) |-> PyStr(args_projects[i])])

\* The head of main's loop over registry.configs_list. (trace and acl_found
\* describe the section the loop has just left, and are cleared here.)
LoopHead ==
    /\ pc = "loop"
    /\ trace' = <<>>
    /\ acl_found' = NoAcl
    /\ IF idx > Len(configs_list)
       THEN pc' = "finally" /\ UNCHANGED idx
       ELSE IF NotSelected(name)
            THEN pc' = "loop" /\ idx' = idx + 1
            ELSE pc' = "options" /\ UNCHANGED idx
    /\ UNCHANGED <<inputs, world, project_list, wrapper, unlinks, project_created,
                   push_string, processed, caught, touched, exit_status, failed>>

\* A no-gerrit test that never skips (the "continue" lost).
SkipsGerrit_never(sec) == FALSE

\* main: "if 'no-gerrit' in project['options']: continue".
SkipsGerrit(sec) == sec.no_gerrit

\* main reads the section's options; a no-gerrit project is left at once.
ReadOptions ==
    /\ pc = "options"
    /\ UNCHANGED trace
    /\ IF SkipsGerrit(section)
       THEN /\ pc' = "loop"
            /\ idx' = idx + 1
            /\ UNCHANGED processed
       ELSE /\ pc' = "create_project"
            /\ processed' = processed \cup {name}
            /\ UNCHANGED idx
    /\ UNCHANGED <<inputs, world, project_list, wrapper, unlinks, locals, caught,
                   touched, exit_status, failed>>

\* An except clause that lets the failure end the loop.
Raise_ends_loop ==
    /\ pc' = "finally"
    /\ idx' = idx
    /\ caught' = caught \cup {name}
    /\ failed' = TRUE

\* main's "except Exception: log.exception(...); continue".
Raise ==
    /\ pc' = "loop"
    /\ idx' = idx + 1
    /\ caught' = caught \cup {name}
    /\ failed' = TRUE

\* The unlink as the last statement of the try block, not as its finally clause:
\* skipped when the loop was left by a failure.
Finally_unless_failed ==
    /\ pc = "finally"
    /\ wrapper' = IF caught = {} THEN "removed" ELSE wrapper
    /\ unlinks' = IF caught = {} THEN unlinks + 1 ELSE unlinks
    /\ pc' = "done"
    /\ exit_status' = 0
    /\ UNCHANGED <<inputs, world, project_list, idx, locals, marks, failed>>

\* main's finally clause: os.unlink(ssh_env['GIT_SSH']).
Finally ==
    /\ pc = "finally"
    /\ wrapper' = "removed"
    /\ unlinks' = unlinks + 1
    /\ pc' = "done"
    /\ exit_status' = 0
    /\ UNCHANGED <<inputs, world, project_list, idx, locals, marks, failed>>

\* ------------------------------------------------------- main, per project
\* A create_gerrit_project that does not look at the snapshot.
create_gerrit_project_unconditional ==
    /\ pc = "create_project"
    /\ \/ /\ gerrit' = [gerrit EXCEPT !.projects = @ \cup {name}]
          /\ project_created' = TRUE
          /\ pc' = "mirror"
          /\ Issue(<<"createProject">>)
          /\ UNCHANGED <<idx, caught, failed>>
       \/ /\ Raise
          /\ Issue(<<"createProject">>)
          /\ UNCHANGED <<gerrit, project_created>>
    /\ UNCHANGED <<inputs, mirror, repo, project_list, wrapper, unlinks,
                   push_string, acl_found, processed, exit_status>>

\* create_gerrit_project: createProject for a name the snapshot lacks; an
\* exception of the call is logged and raised again.
create_gerrit_project ==
    /\ pc = "create_project"
    /\ IF name \notin project_list
       THEN \/ /\ gerrit' = [gerrit EXCEPT !.projects = @ \cup {name}]
               /\ project_created' = TRUE
               /\ pc' = "mirror"
               /\ Issue(<<"createProject">>)
               /\ UNCHANGED <<idx, caught, failed>>
            \/ /\ Raise
               /\ Issue(<<"createProject">>)
               /\ UNCHANGED <<gerrit, project_created>>
       ELSE /\ project_created' = FALSE
            /\ pc' = "mirror"
            /\ UNCHANGED <<gerrit, idx, trace, caught, touched, failed>>
    /\ UNCHANGED <<inputs, mirror, repo, project_list, wrapper, unlinks,
                   push_string, acl_found, processed, exit_status>>

\* What create_local_mirror leaves at the mirror path when "git init --bare"
\* returns ret and the chown returns chown_ret: the failure branch removes the
\* literal path "git_mirror_path", not the mirror.
MirrorAfterInit(ret, chown_ret, partial) ==
    IF ret /= 0 THEN (IF partial THEN "partial" ELSE "absent")
    ELSE IF chown_ret /= 0 THEN "unowned"
    ELSE "mirror"

\* create_local_mirror.
create_local_mirror ==
    /\ pc = "mirror"
    /\ IF mirror[name] = "absent"
       THEN \E ret \in {0, 1}, chown_ret \in {0, 1}, partial \in BOOLEAN :
              /\ (ret = 0 => ~ partial)
              /\ (ret /= 0 => chown_ret = 0)
              /\ mirror' = [mirror EXCEPT ![name] = MirrorAfterInit(ret, chown_ret, partial)]
              /\ IF ret /= 0
                 THEN /\ Raise
                      /\ Issue(<<"git init --bare", "rm -rf git_mirror_path">>)
                 ELSE /\ pc' = "local_copy"
                      /\ Issue(<<"git init --bare", "chown">>)
                      /\ failed' = (failed \/ chown_ret /= 0)
                      /\ UNCHANGED <<idx, caught>>
       ELSE /\ pc' = "local_copy"
            /\ UNCHANGED <<mirror, idx, trace, caught, touched, failed>>
    /\ UNCHANGED <<inputs, gerrit, repo, project_list, wrapper, unlinks, locals,
                   processed, exit_status>>

\* A builder that looks at the upstream before it looks at the server.
make_local_copy_branch_upstream_first(in_list, has_master, upstream) ==
    IF upstream THEN "upstream"
    ELSE IF in_list /\ has_master THEN "gerrit"
    ELSE "init"

\* make_local_copy's three choices, first match winning.
make_local_copy_branch(in_list, has_master, upstream) ==
    IF in_list /\ has_master THEN "gerrit"
    ELSE IF upstream THEN "upstream"
    ELSE "init"

\* What make_local_copy returns on each branch.
make_local_copy_return(branch) ==
    CASE branch = "gerrit" -> PushNone
      [] branch = "upstream" -> PushCopyHeads
      [] branch = "init" -> PushHead

\* The commands make_local_copy issues on each branch.
make_local_copy_commands(branch, upstream) ==
    CASE branch = "gerrit" ->
            <<"git clone remote_url">> \o
            (IF upstream THEN <<"git remote add -f upstream">> ELSE <<>>)
      [] branch = "upstream" ->
            <<"git clone upstream", "git fetch origin +refs/heads/*:refs/copy/heads/*",
              "git remote rename origin upstream", "git remote add origin">>
      [] branch = "init" ->
            <<"git init", "git remote add origin", "write .gitreview",
              "git add .gitreview", "git commit">>

\* The working copy make_local_copy leaves, from the working copy r it found;
\* ok is whether the clone's transfer worked. git clone fails on a path that
\* holds a working copy already, and the commands after it act on that one.
make_local_copy_repo(branch, r, ok, upstream) ==
    LET cloned == ok /\ ~ r.exists IN
    CASE branch = "gerrit" ->
            IF cloned
            THEN [exists |-> TRUE, upstream_remote |-> upstream, content |-> TRUE,
                  copy_heads |-> FALSE]
            ELSE IF r.exists
                 THEN [r EXCEPT !.upstream_remote = @ \/ upstream]
                 ELSE r
      [] branch = "upstream" ->
            IF cloned
            THEN [exists |-> TRUE, upstream_remote |-> TRUE, content |-> TRUE,
                  copy_heads |-> TRUE]
            ELSE IF r.exists
                 THEN [r EXCEPT !.upstream_remote = TRUE]
                 ELSE r
      [] branch = "init" ->
            [exists |-> TRUE, upstream_remote |-> r.upstream_remote,
             content |-> TRUE, copy_heads |-> r.copy_heads]

\* A main that builds only when there is no working copy.
WantsBuilder_without_copy_only == ~ repo[name].exists

\* main: "if not os.path.exists(repo_path) or project_created".
WantsBuilder == ~ repo[name].exists \/ project_created

\* main calls make_local_copy. gerrit.listProjectRefs is called only for a name
\* of the snapshot, and may raise.
make_local_copy ==
    /\ pc = "local_copy"
    /\ WantsBuilder
    /\ LET in_list == name \in project_list
           branch == make_local_copy_branch(in_list, name \in gerrit.master,
                                            section.upstream)
           asked == IF in_list THEN <<"listProjectRefs">> ELSE <<>>
       IN \/ /\ in_list
             /\ Raise
             /\ Issue(asked)
             /\ UNCHANGED <<repo, push_string>>
          \/ \E ok \in BOOLEAN :
                /\ (branch = "init" => ok)
                /\ repo' = [repo EXCEPT ![name] =
                              make_local_copy_repo(branch, @, ok, section.upstream)]
                /\ push_string' = make_local_copy_return(branch)
                /\ Issue(asked \o <<"make_local_copy">> \o
                         make_local_copy_commands(branch, section.upstream))
                /\ pc' = "push"
                /\ failed' = (failed \/ ~ ok)
                /\ UNCHANGED <<idx, caught>>
    /\ UNCHANGED <<inputs, gerrit, mirror, project_list, wrapper, unlinks,
                   project_created, acl_found, processed, exit_status>>

\* The commands update_local_copy issues, from whether 'upstream' is in the
\* output of "git remote".
update_local_copy_commands(track_upstream, has_upstream_remote) ==
    <<"git remote">> \o
    (IF track_upstream
     THEN (IF ~ has_upstream_remote
           THEN <<"git remote add upstream">>
           ELSE <<"git remote set-url upstream">>) \o
          <<"git remote update --prune">>
     ELSE (IF has_upstream_remote THEN <<"git remote rm upstream">> ELSE <<>>)) \o
    <<"git checkout -b master origin/master">>

\* main calls update_local_copy. The shell executor may raise (the command
\* cannot be started).
update_local_copy ==
    /\ pc = "local_copy"
    /\ ~ WantsBuilder
    /\ \/ /\ Raise
          /\ Issue(<<"update_local_copy", "git remote">>)
          /\ UNCHANGED repo
       \/ /\ repo' = [repo EXCEPT ![name].upstream_remote = section.track_upstream]
          /\ Issue(<<"update_local_copy">> \o
                   update_local_copy_commands(section.track_upstream,
                                              repo[name].upstream_remote))
          /\ pc' = "push"
          /\ UNCHANGED <<idx, caught, failed>>
    /\ UNCHANGED <<inputs, gerrit, mirror, project_list, wrapper, unlinks, locals,
                   processed, exit_status>>

\* What "git push <push_string>" publishes: whether refs/heads/master reaches
\* the server, from the working copy r and whether the transfer worked.
Publishes(action, r, ok) ==
    /\ ok
    /\ r.exists
    /\ CASE action = PushCopyHeads -> r.copy_heads
         [] action = PushHead -> r.content
         [] OTHER -> FALSE

\* The commands push_to_gerrit issues. With None for push_string, the "%"
\* raises inside its try, which logs it: nothing is pushed.
push_to_gerrit_commands(action) ==
    IF action = PushNone THEN <<>>
    ELSE <<"git push " \o action, "git push --tags">>

\* main: "if project_created: push_to_gerrit(...); gerrit.replicate(...)".
\* Reading a push_string that was never assigned raises in main; replicate may
\* raise.
push_to_gerrit ==
    /\ pc = "push"
    /\ IF project_created
       THEN IF push_string = "unbound"
            THEN /\ Raise
                 /\ UNCHANGED <<gerrit, trace, touched>>
            ELSE \E ok \in BOOLEAN :
                   /\ (push_string = PushNone => ok)
                   /\ gerrit' = [gerrit EXCEPT !.master =
                                   IF Publishes(push_string, repo[name], ok)
                                   THEN @ \cup {name} ELSE @]
                   /\ Issue(<<"push_to_gerrit">> \o push_to_gerrit_commands(push_string)
                            \o <<"replicate">>)
                   /\ \/ /\ pc' = "sync"
                         /\ failed' = (failed \/ ~ ok)
                         /\ UNCHANGED <<idx, caught>>
                      \/ Raise
       ELSE /\ pc' = "sync"
            /\ UNCHANGED <<gerrit, idx, trace, caught, touched, failed>>
    /\ UNCHANGED <<inputs, mirror, repo, project_list, wrapper, unlinks, locals,
                   processed, exit_status>>

\* main: "if project['track_upstream']: sync_upstream(...)". sync_upstream
\* refreshes the upstream remote, checks out a local branch per upstream
\* branch, and pushes refs/heads/* and the tags to origin; the shell executor
\* may raise before the pushes.
sync_upstream ==
    /\ pc = "sync"
    /\ IF section.track_upstream
       THEN \/ /\ Raise
               /\ Issue(<<"sync_upstream", "git remote update upstream --prune">>)
               /\ UNCHANGED gerrit
            \/ \E ok \in BOOLEAN :
                 /\ gerrit' = [gerrit EXCEPT !.master =
                                 IF ok /\ repo[name].exists /\ repo[name].content
                                 THEN @ \cup {name} ELSE @]
                 /\ Issue(<<"sync_upstream", "git remote update upstream --prune",
                            "git branch -a", "git push origin refs/heads/*:refs/heads/*",
                            "git push origin --tags">>)
                 /\ pc' = "acl"
                 /\ failed' = (failed \/ ~ ok)
                 /\ UNCHANGED <<idx, caught>>
       ELSE /\ pc' = "acl"
            /\ UNCHANGED <<gerrit, idx, trace, caught, touched, failed>>
    /\ UNCHANGED <<inputs, mirror, repo, project_list, wrapper, unlinks, locals,
                   processed, exit_status>>

\* main: "if project['acl_config'] and os.path.exists(project['acl_config'])",
\* acl_config being the section's acl-config or "<name>.config" (never empty),
\* and the path being looked up as it stands, relative to the working directory.
AclBranch(found) == found.cwd

\* process_acls: returns at once unless acl_config is a file of ACL_DIR.
SessionStarts(found) == found.dir

\* The calls of main's last step for a project.
acl_or_description_calls(found, description) ==
    IF AclBranch(found)
    THEN <<"process_acls">> \o
         (IF SessionStarts(found) THEN <<"acl session", "acl cleanup">> ELSE <<>>)
    ELSE IF description THEN <<"updateProject">> ELSE <<>>

\* main's last step for a project: process_acls, or else updateProject for a
\* declared description. process_acls catches what its session raises; the
\* commands of its finally clause may raise (the shell executor), and so may
\* updateProject.
acl_or_description ==
    /\ pc = "acl"
    /\ \E found \in [cwd : BOOLEAN, dir : BOOLEAN] :
         LET calls == acl_or_description_calls(found, section.description) IN
         /\ acl_found' = found
         /\ trace' = trace \o calls
         /\ touched' = IF calls /= <<>> THEN touched \cup {name} ELSE touched
         /\ \/ /\ pc' = "loop"
               /\ idx' = idx + 1
               /\ UNCHANGED <<caught, failed>>
            \/ /\ calls /= <<>>
               /\ calls /= <<"process_acls">>
               /\ Raise
    /\ UNCHANGED <<inputs, world, project_list, wrapper, unlinks, project_created,
                   push_string, processed, exit_status>>

\* ------------------------------------------------------------------- main
Next ==
    \/ CheckFiles
    \/ Connect
    \/ make_ssh_wrapper
    \/ LoopHead
    \/ ReadOptions
    \/ create_gerrit_project
    \/ create_local_mirror
    \/ make_local_copy
    \/ update_local_copy
    \/ push_to_gerrit
    \/ sync_upstream
    \/ acl_or_description
    \/ Finally

Spec == Init /\ [][Next]_vars

\* ------------------------------------------------------------ run after run
\* How many runs of main over the same projects.yaml are followed.
MaxRuns == 2

\* The projects this run created on the server: those the snapshot lacked.
CreatedThisRun == gerrit.projects \ project_list

\* main is run again, over the same input files and command line; the server
\* and the directories are as the last run left them.
Rerun ==
    /\ pc = "done"
    /\ run < MaxRuns
    /\ run' = run + 1
    /\ pending' = pending \cup (CreatedThisRun \ gerrit.master)
    /\ project_list' = {}
    /\ wrapper' = "none"
    /\ unlinks' = 0
    /\ pc' = "start"
    /\ idx' = 1
    /\ project_created' = FALSE
    /\ push_string' = "unbound"
    /\ acl_found' = NoAcl
    /\ trace' = <<>>
    /\ processed' = {}
    /\ caught' = {}
    /\ touched' = {}
    /\ exit_status' = -1
    /\ failed' = FALSE
    /\ UNCHANGED <<conf_exists, project_conf_exists, args_projects, configs_list,
                   world, acl_vars, copy_vars, env_vars>>

\* One project under study: the input files are there, no name is given on the
\* command line, and the other declared projects are no-gerrit ones the server
\* and the directories know nothing of.
InitRerun ==
    /\ Init
    /\ conf_exists /\ project_conf_exists
    /\ args_projects = <<>>
    /\ \A n \in Names \ {1} :
          /\ configs_list[n].no_gerrit
          /\ n \notin gerrit.projects
          /\ mirror[n] = "absent"
          /\ repo[n] = NoRepo

NextRerun == Next \/ Rerun

SpecRerun == InitRerun /\ [][NextRerun]_vars

\* ------------------------------------------------------- process_acls: domain
\* fetch_config: "for x in range(10)", in both of its polling loops.
FetchAttempts == 10

\* How many lines a project.config has at most.
MaxLines == 3

\* A line of project.config: whether it starts with white space, and its words.
\* Every line ends in a newline.
PolicyLines ==
    { [indent |-> TRUE, tokens |-> <<"owner", "=", "group", "A">>],
      [indent |-> TRUE, tokens |-> <<"read", "=", "group", "B">>],
      [indent |-> TRUE, tokens |-> <<"push", "=", "group", "A">>],
      [indent |-> TRUE, tokens |-> <<"label", "=", "group", "B", "group", "A">>],
      [indent |-> TRUE, tokens |-> <<"description", "=", "group">>],
      [indent |-> FALSE, tokens |-> <<"group", "B">>],
      [indent |-> FALSE, tokens |-> <<"[access]">>] }

RECURSIVE SeqsUpTo(_, _)
SeqsUpTo(S, n) ==
    IF n = 0 THEN {<<>>}
    ELSE LET shorter == SeqsUpTo(S, n - 1)
         IN shorter \cup {Append(f, e) : f \in {g \in shorter : Len(g) = n - 1}, e \in S}

PolicyFiles == SeqsUpTo(PolicyLines, MaxLines)

\* The group names a server can hold (a name is the words after "group").
GroupNames == {<<"A">>, <<"B">>}

\* The UUID the server gives the group of a name.
UUID(n) == <<"uuid">> \o n

Max(S) == CHOOSE m \in S : \A k \in S : k <= m

\* re.match(r'^.*\sgroup\s+(.*)$', line): the words after the last "group" that
\* has white space before it (the newline serves as the white space after it).
\* [matched, group].
GroupMatch(line) ==
    LET at == {i \in 1..Len(line.tokens) :
                  line.tokens[i] = "group" /\ (i > 1 \/ line.indent)}
    IN IF at = {}
       THEN [matched |-> FALSE, group |-> <<>>]
       ELSE [matched |-> TRUE,
             group |-> SubSeq(line.tokens, Max(at) + 1, Len(line.tokens))]

\* The keys of the dict uuids, kept as (group, uuid) pairs.
Keys(d) == {p[1] : p \in d}

\* ------------------------------------------------------------ fetch_config
\* fetch_config, first loop: one fetch of refs/meta/config; break on status 0,
\* else sleep and go round again.
FetchMetaRef ==
    /\ a_pc = "fetch_meta"
    /\ \E st \in {0, 1} :
         /\ status' = st
         /\ fetch_results' = Append(fetch_results, st)
         /\ IF st = 0 \/ x + 1 >= FetchAttempts
            THEN a_pc' = "fetch_meta_over" /\ UNCHANGED x
            ELSE a_pc' = "fetch_meta" /\ x' = x + 1
         /\ wc' = IF st = 0 THEN [wc EXCEPT !.fetched = meta.policy] ELSE wc
    /\ steps' = IF fetch_results = <<>> THEN Append(steps, "fetch") ELSE steps
    /\ UNCHANGED <<main_vars, template, output, locate_results, meta, uuids,
                   line_no, exc>>

\* A first loop whose failure is not looked at.
FetchMetaRaises_never(st) == FALSE

\* fetch_config after the first loop: "if status != 0: raise FetchConfigException()".
FetchMetaRaises(st) == st /= 0

\* (What the first loop's fetches came to is kept for a raise only.)
FetchMetaOver ==
    /\ a_pc = "fetch_meta_over"
    /\ IF FetchMetaRaises(status)
       THEN /\ exc' = "FetchConfigException"
            /\ a_pc' = "except"
            /\ UNCHANGED <<x, output, fetch_results>>
       ELSE /\ a_pc' = "locate"
            /\ x' = 0
            /\ output' = ""
            /\ fetch_results' = <<>>
            /\ UNCHANGED exc
    /\ UNCHANGED <<main_vars, template, status, locate_results, wc, meta, uuids,
                   line_no, steps>>

\* A second loop that looks at the output only.
LocateFound_by_output(out, st) == out = "project.config"

\* fetch_config, second loop: "remote update --prune", and when that worked
\* "ls-files --with-tree=remotes/gerrit-meta/config project.config"; break when
\* the output is project.config and the status 0, else sleep and go round again.
LocateFound(out, st) == ~ (out /= "project.config" \/ st /= 0)

LocatePolicy ==
    /\ a_pc = "locate"
    /\ \E ust \in {0, 1}, lst \in {0, 1}, out \in {"project.config", ""} :
         LET found == ust = 0 /\ LocateFound(out, lst) IN
         /\ (ust /= 0 => (lst = 0 /\ out = ""))
         /\ status' = IF ust /= 0 THEN ust ELSE lst
         /\ output' = IF ust /= 0 THEN output ELSE out
         /\ locate_results' = Append(locate_results,
                                     IF ust /= 0 THEN "update failed"
                                     ELSE IF found THEN "found" ELSE "not found")
         /\ IF found \/ x + 1 >= FetchAttempts
            THEN a_pc' = "locate_over" /\ UNCHANGED x
            ELSE a_pc' = "locate" /\ x' = x + 1
    /\ steps' = IF locate_results = <<>> THEN Append(steps, "locate") ELSE steps
    /\ UNCHANGED <<main_vars, template, fetch_results, wc, meta, uuids, line_no, exc>>

\* fetch_config after the second loop: raise unless project.config was found.
LocateOver ==
    /\ a_pc = "locate_over"
    /\ IF ~ LocateFound(output, status)
       THEN /\ exc' = "FetchConfigException"
            /\ a_pc' = "except"
       ELSE /\ a_pc' = "checkout"
            /\ UNCHANGED exc
    /\ UNCHANGED <<main_vars, template, x, status, output, fetch_results,
                   locate_results, wc, meta, uuids, line_no, steps>>

\* fetch_config's last command: "checkout -b config remotes/gerrit-meta/config",
\* run once; on success fetch_config returns (its locals are gone).
CheckoutConfig ==
    /\ a_pc = "checkout"
    /\ steps' = Append(steps, "checkout")
    /\ \E st \in {0, 1} :
         IF st /= 0
         THEN /\ exc' = "FetchConfigException"
              /\ a_pc' = "except"
              /\ status' = st
              /\ UNCHANGED <<x, output, fetch_results, locate_results, wc>>
         ELSE /\ a_pc' = "copy"
              /\ wc' = [wc EXCEPT !.branch = "config", !.config_branch = TRUE,
                                  !.policy = wc.fetched,
                                  !.groups = meta.groups_file]
              /\ x' = 0
              /\ status' = -1
              /\ output' = ""
              /\ fetch_results' = <<>>
              /\ locate_results' = <<>>
              /\ UNCHANGED exc
    /\ UNCHANGED <<main_vars, template, meta, uuids, line_no>>

\* ------------------------------------------------------------ process_acls
\* process_acls: "if not os.path.isfile(...): return", else the session starts.
StartSession ==
    /\ a_pc = "isfile"
    /\ a_pc' = IF ~ template THEN "returned" ELSE "fetch_meta"
    /\ UNCHANGED <<main_vars, template, x, status, output, fetch_results,
                   locate_results, wc, meta, uuids, line_no, steps, exc>>

\* copy_acl_config's result: "git diff --quiet" returns non-zero when the
\* working tree differs from the index, and the function returns status != 0.
DiffStatus(old, new) == IF old = new THEN 0 ELSE 1

\* A copy_acl_config that reports a change whatever the diff says.
Changed_always(old, new) == TRUE

Changed(old, new) == DiffStatus(old, new) /= 0

\* copy_acl_config: raise unless the template is there; render it to a
\* temporary file; cp that over project.config, raising on a failed cp; then
\* tell whether the working tree changed. process_acls returns when it did not.
copy_acl_config ==
    /\ a_pc = "copy"
    /\ \E there \in BOOLEAN, rendered \in PolicyFiles, cp \in {0, 1} :
         /\ (~ there => (rendered = <<>> /\ cp = 0))
         /\ (cp /= 0 => rendered = <<>>)
         /\ IF ~ there
            THEN /\ exc' = "CopyACLException"
                 /\ a_pc' = "except"
                 /\ steps' = Append(steps, "copy")
                 /\ UNCHANGED wc
            ELSE IF cp /= 0
            THEN /\ exc' = "CopyACLException"
                 /\ a_pc' = "except"
                 /\ steps' = steps \o <<"copy", "render", "cp">>
                 /\ UNCHANGED wc
            ELSE /\ wc' = [wc EXCEPT !.policy = rendered, !.rendered = rendered,
                                     !.dirty = Changed(wc.policy, rendered)]
                 /\ steps' = steps \o <<"copy", "render", "cp", "diff">>
                 /\ a_pc' = IF Changed(wc.policy, rendered) THEN "groups" ELSE "finally"
                 /\ UNCHANGED exc
    /\ line_no' = 1
    /\ uuids' = {}
    /\ UNCHANGED <<main_vars, template, x, status, output, fetch_results,
                   locate_results, meta>>

\* get_group_uuid that asks for the group to be created before looking it up.
get_group_uuid_creates_first(known, works) ==
    [create |-> TRUE, found |-> known \/ works]

\* get_group_uuid: look the group up; when it has no UUID, createGroup and look
\* it up again. known: the server has a UUID for it; works: createGroup gives
\* it one. [create: createGroup was called, found: a UUID is returned].
get_group_uuid(known, works) ==
    IF known THEN [create |-> FALSE, found |-> TRUE]
    ELSE [create |-> TRUE, found |-> works]

\* create_groups_file, one line of project.config: a line that names a group
\* not yet in uuids has its UUID looked up (and the group created when it
\* has none); a group left without UUID raises CreateGroupException.
GroupsLine ==
    /\ a_pc = "groups"
    /\ steps' = IF line_no = 1 THEN Append(steps, "groups") ELSE steps
    /\ IF line_no > Len(wc.policy)
       THEN /\ a_pc' = "groups_write"
            /\ UNCHANGED <<line_no, uuids, meta, exc>>
       ELSE LET r == GroupMatch(wc.policy[line_no]) IN
            IF ~ r.matched \/ r.group \in Keys(uuids)
            THEN /\ line_no' = line_no + 1
                 /\ UNCHANGED <<a_pc, uuids, meta, exc>>
            ELSE \E works \in BOOLEAN :
                   LET got == get_group_uuid(r.group \in meta.groups, works) IN
                   /\ (works => r.group \in GroupNames \ meta.groups)
                   /\ (r.group \in meta.groups => ~ works)
                   /\ meta' = [meta EXCEPT
                                 !.groups = IF got.create /\ works
                                            THEN @ \cup {r.group} ELSE @,
                                 !.created = IF got.create
                                             THEN Append(@, r.group) ELSE @]
                   /\ IF got.found
                      THEN /\ uuids' = uuids \cup {<<r.group, UUID(r.group)>>}
                           /\ line_no' = line_no + 1
                           /\ UNCHANGED <<a_pc, exc>>
                      ELSE /\ exc' = "CreateGroupException"
                           /\ a_pc' = "except"
                           /\ UNCHANGED <<line_no, uuids>>
    /\ UNCHANGED <<main_vars, template, x, status, output, fetch_results,
                   locate_results, wc>>

\* create_groups_file, after the lines: the groups file is written when uuids
\* is not empty, one "uuid<TAB>group" line per item, and "git add groups" is
\* run, which fails when there is no such file; a failure raises
\* CreateGroupException.
GroupsFile(old, d) ==
    IF d /= {} THEN [there |-> TRUE, pairs |-> {<<p[2], p[1]>> : p \in d}] ELSE old

GroupsWrite ==
    /\ a_pc = "groups_write"
    /\ wc' = [wc EXCEPT !.groups = GroupsFile(@, uuids)]
    /\ steps' = steps \o (IF uuids /= {} THEN <<"write groups">> ELSE <<>>)
                      \o <<"add groups">>
    /\ IF wc'.groups.there
       THEN a_pc' = "commit" /\ UNCHANGED exc
       ELSE a_pc' = "except" /\ exc' = "CreateGroupException"
    /\ UNCHANGED <<main_vars, template, x, status, output, fetch_results,
                   locate_results, meta, uuids, line_no>>

\* A push_acl_config that pushes whatever the commit came to.
CommitPolicy_then_push ==
    /\ a_pc = "commit"
    /\ steps' = Append(steps, "commit")
    /\ \E st \in {0, 1} :
         wc' = IF st /= 0 THEN wc ELSE [wc EXCEPT !.dirty = FALSE]
    /\ a_pc' = "push"
    /\ UNCHANGED <<main_vars, template, x, status, output, fetch_results,
                   locate_results, meta, uuids, line_no, exc>>

\* push_acl_config, the commit: on a failure it logs and returns False.
CommitPolicy ==
    /\ a_pc = "commit"
    /\ steps' = Append(steps, "commit")
    /\ \E st \in {0, 1} :
         IF st /= 0
         THEN a_pc' = "finally" /\ UNCHANGED wc
         ELSE a_pc' = "push" /\ wc' = [wc EXCEPT !.dirty = FALSE]
    /\ UNCHANGED <<main_vars, template, x, status, output, fetch_results,
                   locate_results, meta, uuids, line_no, exc>>

\* push_acl_config, the push of HEAD to refs/meta/config.
PushPolicy ==
    /\ a_pc = "push"
    /\ steps' = Append(steps, "push")
    /\ \E st \in {0, 1} :
         meta' = IF st = 0
                 THEN [meta EXCEPT !.policy = wc.policy, !.groups_file = wc.groups]
                 ELSE meta
    /\ a_pc' = "finally"
    /\ UNCHANGED <<main_vars, template, x, status, output, fetch_results,
                   locate_results, wc, uuids, line_no, exc>>

\* An except clause with no finally clause after it.
CatchSession_without_finally ==
    /\ a_pc = "except"
    /\ a_pc' = "returned"
    /\ UNCHANGED <<main_vars, template, x, status, output, fetch_results,
                   locate_results, wc, meta, uuids, line_no, steps, exc>>

\* process_acls: "except Exception: log.exception(...)".
CatchSession ==
    /\ a_pc = "except"
    /\ a_pc' = "finally"
    /\ UNCHANGED <<main_vars, template, x, status, output, fetch_results,
                   locate_results, wc, meta, uuids, line_no, steps, exc>>

\* The commands of process_acls's finally clause.
CleanupCommands == <<"reset --hard", "checkout master", "branch -D config">>

\* process_acls's finally clause.
Cleanup ==
    /\ a_pc = "finally"
    /\ steps' = steps \o CleanupCommands
    /\ wc' = [wc EXCEPT !.branch = "master", !.dirty = FALSE,
                        !.config_branch = FALSE, !.policy = <<>>,
                        !.groups = NoFile]
    /\ a_pc' = "returned"
    /\ UNCHANGED <<main_vars, template, x, status, output, fetch_results,
                   locate_results, meta, uuids, line_no, exc>>

\* The server's project.config and groups file when a session starts.
ServerPolicies ==
    {<<>>, <<[indent |-> TRUE, tokens |-> <<"owner", "=", "group", "A">>]>>}
ServerGroupFiles == {NoFile, [there |-> TRUE, pairs |-> {}]}

\* One call of process_acls, main being at its call.
InitAcl ==
    /\ run = 1
    /\ pending = {}
    /\ RunStart
    /\ conf_exists = TRUE
    /\ project_conf_exists = TRUE
    /\ args_projects = <<>>
    /\ configs_list = <<>>
    /\ gerrit = [projects |-> {}, master |-> {}]
    /\ mirror = [n \in Names |-> "absent"]
    /\ repo = [n \in Names |-> NoRepo]
    /\ CopyIdle
    /\ EnvIdle
    /\ a_pc = "isfile"
    /\ template \in BOOLEAN
    /\ x = 0
    /\ status = -1
    /\ output = ""
    /\ fetch_results = <<>>
    /\ locate_results = <<>>
    /\ wc = NoWc
    /\ meta \in {[policy |-> p, groups_file |-> g, groups |-> s,
                  groups_before |-> s, created |-> <<>>] :
                    p \in ServerPolicies, g \in ServerGroupFiles,
                    s \in SUBSET GroupNames}
    /\ uuids = {}
    /\ line_no = 0
    /\ steps = <<>>
    /\ exc = "none"

NextAcl ==
    \/ StartSession
    \/ FetchMetaRef
    \/ FetchMetaOver
    \/ LocatePolicy
    \/ LocateOver
    \/ CheckoutConfig
    \/ copy_acl_config
    \/ GroupsLine
    \/ GroupsWrite
    \/ CommitPolicy
    \/ PushPolicy
    \/ CatchSession
    \/ Cleanup

SpecAcl == InitAcl /\ [][NextAcl]_vars

\* ------------------------------------------- the working copy: its domain
\* Text that the code searches and slices is a sequence of characters.
origin == <<"o", "r", "i", "g", "i", "n">>
upstream == <<"u", "p", "s", "t", "r", "e", "a", "m">>
upstream_old == upstream \o <<"-", "o", "l", "d">>
master == <<"m", "a", "s", "t", "e", "r">>
dev == <<"d", "e", "v">>
HEAD == <<"H", "E", "A", "D">>
remotes_ == <<"r", "e", "m", "o", "t", "e", "s">>
slash == <<"/">>
arrow == <<"-", ">">>
space == <<" ">>
newline == <<"\n">>

\* str.startswith and the operator "in" on strings.
StartsWith(s, p) == Len(s) >= Len(p) /\ SubSeq(s, 1, Len(p)) = p
Contains(s, p) ==
    \E i \in 0..(Len(s) - Len(p)) : SubSeq(s, i + 1, i + Len(p)) = p

\* str.strip() and str.split()[0], for text whose white space is spaces.
RECURSIVE LStrip(_)
LStrip(s) == IF s /= <<>> /\ Head(s) = " " THEN LStrip(Tail(s)) ELSE s
RECURSIVE RStrip(_)
RStrip(s) ==
    IF s /= <<>> /\ s[Len(s)] = " " THEN RStrip(SubSeq(s, 1, Len(s) - 1)) ELSE s
Strip(s) == RStrip(LStrip(s))
RECURSIVE Word(_)
Word(s) == IF s = <<>> \/ Head(s) = " " THEN <<>> ELSE <<Head(s)>> \o Word(Tail(s))
FirstWord(s) == Word(LStrip(s))

\* The remotes a working copy can have and the branches a remote can hold.
RemoteOrder == <<origin, upstream_old, upstream>>
BranchOrder == <<dev, master>>
RemoteNames == {RemoteOrder[i] : i \in 1..Len(RemoteOrder)}
Branches == {BranchOrder[i] : i \in 1..Len(BranchOrder)}

\* How many remote-tracking branches a working copy starts with, at most.
MaxTracking == 2

\* The working copies update_local_copy and sync_upstream can find: origin is a
\* remote; url is what the remote upstream points at ("absent", "stale",
\* "declared", or "None" after a command formatted with no upstream declared);
\* heads are the local branches and head the one checked out; tracking are the
\* remote-tracking branches, as (remote, branch); alias are the remotes whose
\* HEAD is a symbolic ref to their master.
Copies ==
    {c \in [remotes : SUBSET RemoteNames, url : {"absent", "stale", "declared"},
            heads : SUBSET Branches, head : Branches,
            tracking : SUBSET (RemoteNames \X Branches),
            alias : SUBSET RemoteNames] :
        /\ origin \in c.remotes
        /\ (c.url = "absent") <=> (upstream \notin c.remotes)
        /\ c.head \in c.heads
        /\ Cardinality(c.tracking) <= MaxTracking
        /\ \A t \in c.tracking : t[1] \in c.remotes
        /\ \A r \in c.alias : <<r, master>> \in c.tracking}

\* The options of the project: track-upstream, whether an upstream is declared,
\* whether an upstream-prefix is, and whether the network answers (net).
Options ==
    [track_upstream : BOOLEAN, upstream : BOOLEAN, upstream_prefix : BOOLEAN,
     net : BOOLEAN]

\* The upstream-prefix of a project that declares one.
prefix == <<"u", "p">>

\* ------------------------------------------------------ update_local_copy
\* The output of "git remote": the names of the remotes, one on each line.
RECURSIVE RemoteLines(_, _)
RemoteLines(rs, i) ==
    IF i > Len(RemoteOrder) THEN <<>>
    ELSE (IF RemoteOrder[i] \in rs THEN RemoteOrder[i] \o newline ELSE <<>>)
         \o RemoteLines(rs, i + 1)
RemoteOutput(c) == RemoteLines(c.remotes, 1)

\* The URL "%(upstream)s" % git_opts puts in a command.
FormattedUrl(o) == IF o.upstream THEN "declared" ELSE "None"

\* The branches a fetch from a remote brings, by what its URL points at.
Served(r, url) ==
    IF r = upstream /\ url = "declared" THEN {master, dev} ELSE {master}

\* "git remote update [<remotes>] --prune" for the remotes rs: the tracking
\* branches of each remote that can be fetched become the branches it holds.
\* Nothing can be fetched from the URL "None".
Fetchable(c, o, rs) ==
    {r \in rs \cap c.remotes : o.net /\ (r = upstream => c.url /= "None")}
RemoteUpdate(c, o, rs) ==
    [c EXCEPT !.tracking =
        {t \in @ : t[1] \notin Fetchable(c, o, rs)} \cup
        {t \in Fetchable(c, o, rs) \X Branches : t[2] \in Served(t[1], c.url)}]

\* "git remote add upstream <url>", "git remote set-url upstream <url>" and
\* "git remote rm upstream": the first fails when the remote is there, the
\* others when it is not.
RemoteAdd(c, url) ==
    IF upstream \in c.remotes THEN c
    ELSE [c EXCEPT !.remotes = @ \cup {upstream}, !.url = url]
RemoteSetUrl(c, url) ==
    IF upstream \in c.remotes THEN [c EXCEPT !.url = url] ELSE c
RemoteRm(c) ==
    IF upstream \in c.remotes
    THEN [c EXCEPT !.remotes = @ \ {upstream}, !.url = "absent",
                   !.tracking = {t \in @ : t[1] /= upstream},
                   !.alias = @ \ {upstream}]
    ELSE c

\* "git checkout -b <branch> <start>": fails when the branch is there, when
\* the start point is not, or when the name is not one git takes.
ValidBranch(b) == b /= <<>> /\ Head(b) /= "/" /\ ~ Contains(b, slash \o slash)
CheckoutNew(c, b, start) ==
    IF b \in c.heads \/ start \notin c.tracking \/ ~ ValidBranch(b) THEN c
    ELSE [c EXCEPT !.heads = @ \cup {b}, !.head = b]

\* An update_local_copy that takes the remote upstream to be missing.
has_upstream_remote_never(c) == FALSE

\* update_local_copy: "has_upstream_remote = 'upstream' in <output of git remote>".
has_upstream_remote(c) == Contains(RemoteOutput(c), upstream)

\* A git command issued: its words up to the arguments that vary, and these.
Op(cmd) == [cmd |-> cmd, args |-> <<>>]

\* update_local_copy: the commands it issues and the working copy it leaves.
update_local_copy_ops(c, o) ==
    <<Op("remote")>> \o
    (IF o.track_upstream
     THEN (IF ~ has_upstream_remote(c)
           THEN <<Op("remote add upstream")>> ELSE <<Op("remote set-url upstream")>>)
          \o <<Op("remote update --prune")>>
     ELSE (IF has_upstream_remote(c) THEN <<Op("remote rm upstream")>> ELSE <<>>))
    \o <<Op("checkout -b master origin/master")>>

update_local_copy_copy(c, o) ==
    LET configured ==
          IF o.track_upstream
          THEN RemoteUpdate(IF ~ has_upstream_remote(c)
                            THEN RemoteAdd(c, FormattedUrl(o))
                            ELSE RemoteSetUrl(c, FormattedUrl(o)),
                            o, RemoteNames)
          ELSE IF has_upstream_remote(c) THEN RemoteRm(c) ELSE c
    IN CheckoutNew(configured, master, <<origin, master>>)

\* ----------------------------------------------------------- sync_upstream
\* The name git prints for a remote-tracking branch.
RefText(t) == remotes_ \o slash \o t[1] \o slash \o t[2]

\* The output of "git branch -a", line by line: the local branches, the one
\* checked out marked with "*", then per remote its symbolic HEAD and its
\* tracking branches.
LocalLine(c, b) == (IF c.head = b THEN <<"*">> ELSE space) \o space \o b
AliasLine(r) ==
    space \o space \o RefText(<<r, HEAD>>) \o space \o arrow \o space
    \o r \o slash \o master
RemoteLine(t) == space \o space \o RefText(t)

RECURSIVE LocalLines(_, _)
LocalLines(c, i) ==
    IF i > Len(BranchOrder) THEN <<>>
    ELSE (IF BranchOrder[i] \in c.heads
          THEN <<LocalLine(c, BranchOrder[i])>> ELSE <<>>)
         \o LocalLines(c, i + 1)

RECURSIVE TrackingLines(_, _, _)
TrackingLines(c, r, i) ==
    IF i > Len(BranchOrder) THEN <<>>
    ELSE (IF <<r, BranchOrder[i]>> \in c.tracking
          THEN <<RemoteLine(<<r, BranchOrder[i]>>)>> ELSE <<>>)
         \o TrackingLines(c, r, i + 1)

RECURSIVE RemotesLines(_, _)
RemotesLines(c, i) ==
    IF i > Len(RemoteOrder) THEN <<>>
    ELSE (IF RemoteOrder[i] \in c.alias THEN <<AliasLine(RemoteOrder[i])>> ELSE <<>>)
         \o TrackingLines(c, RemoteOrder[i], 1)
         \o RemotesLines(c, i + 1)

BranchListing(c) == LocalLines(c, 1) \o RemotesLines(c, 1)

\* sync_upstream, per line of the listing: the two tests that skip a line.
NotUpstream(branch) == ~ StartsWith(Strip(branch), remotes_ \o slash \o upstream)
IsAlias(branch) == Contains(branch, arrow)
Skipped(branch) == NotUpstream(branch) \/ IsAlias(branch)

\* sync_upstream: "local_branch = branch.split()[0][len('remotes/upstream/'):]",
\* with the upstream-prefix and a "/" before it when one is declared.
local_branch(branch, o) ==
    LET word == FirstWord(branch)
        cut == Len(remotes_ \o slash \o upstream \o slash)
        rest == SubSeq(word, cut + 1, Len(word))
    IN IF o.upstream_prefix THEN prefix \o slash \o rest ELSE rest

\* The tracking branch a start point names; <<>> when it names none.
StartPoint(c, word) ==
    IF \E t \in c.tracking : RefText(t) = word
    THEN CHOOSE t \in c.tracking : RefText(t) = word
    ELSE <<>>

\* sync_upstream's loop from line i on: the checkouts issued and the working
\* copy left.
RECURSIVE Checkouts(_, _, _)
Checkouts(lines, o, i) ==
    IF i > Len(lines) THEN <<>>
    ELSE (IF Skipped(lines[i]) THEN <<>>
          ELSE <<[cmd |-> "checkout -b",
                  args |-> <<local_branch(lines[i], o), FirstWord(lines[i])>>]>>)
         \o Checkouts(lines, o, i + 1)

RECURSIVE CheckedOut(_, _, _, _)
CheckedOut(c, lines, o, i) ==
    IF i > Len(lines) THEN c
    ELSE CheckedOut(IF Skipped(lines[i]) THEN c
                    ELSE CheckoutNew(c, local_branch(lines[i], o),
                                     StartPoint(c, FirstWord(lines[i]))),
                    lines, o, i + 1)

\* sync_upstream: the commands it issues and the working copy it leaves.
sync_upstream_ops(c, o) ==
    <<Op("remote update upstream --prune"), Op("branch -a")>>
    \o Checkouts(BranchListing(RemoteUpdate(c, o, {upstream})), o, 1)
    \o <<Op("push origin refs/heads/*:refs/heads/*"), Op("push origin --tags")>>

sync_upstream_copy(c, o) ==
    LET fetched == RemoteUpdate(c, o, {upstream})
    IN CheckedOut(fetched, BranchListing(fetched), o, 1)

\* ------------------------------------------- the working copy: its calls
\* main calls update_local_copy on a working copy that is there, in this run
\* and in the next.
UpdateCopy ==
    /\ c_pc \in {"start", "updated"}
    /\ copy' = update_local_copy_copy(copy, opts)
    /\ ops' = update_local_copy_ops(copy, opts)
    /\ first' = IF c_pc = "start" THEN copy' ELSE first
    /\ c_pc' = IF c_pc = "start" THEN "updated" ELSE "updated again"
    /\ UNCHANGED <<run_vars, acl_vars, env_vars, opts, listing>>

\* main calls sync_upstream, for a project that tracks upstream.
SyncCopy ==
    /\ c_pc \in {"start", "updated", "updated again"}
    /\ opts.track_upstream
    /\ copy' = sync_upstream_copy(copy, opts)
    /\ ops' = sync_upstream_ops(copy, opts)
    /\ listing' = BranchListing(RemoteUpdate(copy, opts, {upstream}))
    /\ c_pc' = "synced"
    /\ UNCHANGED <<run_vars, acl_vars, env_vars, opts, first>>

\* One working copy that is there, main being at its calls.
InitCopy ==
    /\ run = 1
    /\ pending = {}
    /\ RunStart
    /\ AclIdle
    /\ EnvIdle
    /\ conf_exists = TRUE
    /\ project_conf_exists = TRUE
    /\ args_projects = <<>>
    /\ configs_list = <<>>
    /\ gerrit = [projects |-> {}, master |-> {}]
    /\ mirror = [n \in Names |-> "absent"]
    /\ repo = [n \in Names |-> NoRepo]
    /\ c_pc = "start"
    /\ opts \in Options
    /\ copy \in Copies
    /\ first = NoCopy
    /\ listing = <<>>
    /\ ops = <<>>

NextCopy == UpdateCopy \/ SyncCopy

SpecCopy == InitCopy /\ [][NextCopy]_vars

\* ------------------------------------------------------------ run_command
\* How many calls of run_command are followed.
MaxCalls == 3

\* The environments the process can start with, and the env arguments: a
\* variable is "unset" (not a key) or has the value the process started with
\* or the value of an overlay.
Environments == [EnvNames -> {"unset", "original"}]
Overlays == [EnvNames -> {"unset", "overlay"}]

\* dict.update: the keys of env are set in d, the others are kept.
Update(d, env) == [v \in EnvNames |-> IF env[v] /= "unset" THEN env[v] ELSE d[v]]

\* run_command: "newenv = os.environ; newenv.update(env)" and
\* "subprocess.Popen(cmd_list, ..., env=newenv)". newenv is the object
\* os.environ, not a copy of it. [environ: os.environ after the call,
\* newenv: what the command was started with].
run_command_env(d, env) ==
    LET newenv == Update(d, env)
    IN [environ |-> newenv, newenv |-> newenv]

\* A call of run_command, directly or through run_command_status, git_command
\* or git_command_output, which pass their env argument on ("env or {}": no
\* argument is the empty overlay).
run_command ==
    /\ e_calls < MaxCalls
    /\ \E env \in Overlays :
         /\ overlay' = env
         /\ environ' = run_command_env(environ, env).environ
         /\ ran_with' = run_command_env(environ, env).newenv
    /\ e_calls' = e_calls + 1
    /\ UNCHANGED <<run_vars, acl_vars, copy_vars, original>>

\* A process about to run its first command.
InitEnv ==
    /\ run = 1
    /\ pending = {}
    /\ RunStart
    /\ AclIdle
    /\ CopyIdle
    /\ conf_exists = TRUE
    /\ project_conf_exists = TRUE
    /\ args_projects = <<>>
    /\ configs_list = <<>>
    /\ gerrit = [projects |-> {}, master |-> {}]
    /\ mirror = [n \in Names |-> "absent"]
    /\ repo = [n \in Names |-> NoRepo]
    /\ e_calls = 0
    /\ environ \in Environments
    /\ original = environ
    /\ overlay = NoEnv
    /\ ran_with = NoEnv

NextEnv == run_command

SpecEnv == InitEnv /\ [][NextEnv]_vars

\* ----------------------------------------------------------------- claims
\* The declared sections' indices, and what the command line asks for: every
\* project when no name is given, else the named ones.
Declared == DOMAIN configs_list
Asked(n) == Len(args_projects) = 0 \/ \E i \in 1..Len(args_projects) : args_projects[i] = n
Wanted(i) == ~ configs_list[i].no_gerrit /\ Asked(configs_list[i].project)

\* C1: a failure raised while processing project P is caught at P's boundary:
\* it never ends the process, and when the run is over every wanted project Q
\* declared after P has been processed.
C1_FailureIsolated ==
    /\ caught /= {} => pc /= "exited"
    /\ pc = "done" =>
         \A i, j \in Declared :
            (i < j /\ configs_list[i].project \in caught /\ Wanted(i) /\ Wanted(j))
               => configs_list[j].project \in processed

\* C1's case: the run is over, the first project failed and the second was processed.
C1_Witness ==
    /\ pc = "done"
    /\ Len(configs_list) >= 2
    /\ configs_list[1].project \in caught
    /\ configs_list[2].project \in processed

\* C2: for a no-gerrit project no server call, command or file operation is
\* ever issued, and main never goes past the no-gerrit test for it, whatever
\* the server and the directories hold.
C2_NoGerritUntouched ==
    /\ \A i \in Declared : configs_list[i].no_gerrit =>
          /\ configs_list[i].project \notin touched
          /\ configs_list[i].project \notin processed
    /\ (pc \notin {"start", "connect", "wrapper", "exited", "loop", "options",
                   "finally", "done"})
          => ~ section.no_gerrit

\* C2's case: the run is over, it did work for another project, and the
\* no-gerrit project is one the server lacks and that has no local directories.
C2_Witness ==
    /\ pc = "done"
    /\ \E i, j \in Declared :
          /\ configs_list[i].no_gerrit
          /\ configs_list[i].project \notin gerrit.projects
          /\ mirror[configs_list[i].project] = "absent"
          /\ ~ repo[configs_list[i].project].exists
          /\ configs_list[j].project \in touched

\* C3: once created, the wrapper file is removed exactly once, when the loop is
\* over, also when every project failed; the process does not end with the file
\* in place and nothing runs after the removal.
C3_WrapperRemovedOnce ==
    /\ wrapper = "present" => (unlinks = 0 /\ pc \notin {"exited", "done"})
    /\ wrapper = "removed" => (unlinks = 1 /\ pc = "done" /\ idx > Len(configs_list))
    /\ pc = "done" => wrapper = "removed"
    /\ unlinks <= 1

\* C3's case: every declared project failed and the file is removed.
C3_Witness ==
    /\ pc = "done"
    /\ wrapper = "removed"
    /\ Len(configs_list) >= 2
    /\ \A i \in Declared : configs_list[i].project \in caught

\* C4: with names given on the command line, exactly the declared projects
\* named are processed; with none given, all are.
C4_SubsetProcessed ==
    pc = "done" =>
       \A i \in Declared :
          ~ configs_list[i].no_gerrit =>
             (configs_list[i].project \in processed <=> Asked(configs_list[i].project))

\* C5: a project that an earlier run created on the server and left without
\* content is populated (it has refs/heads/master) at the end of a later run in
\* which no call or command failed.
C5_UnpopulatedIsRetried ==
    (pc = "done" /\ run >= 2 /\ ~ failed) => pending \subseteq gerrit.master

\* Helpers on sequences.
Has(seq, e) == \E i \in 1..Len(seq) : seq[i] = e
Times(seq, e) == Cardinality({i \in 1..Len(seq) : seq[i] = e})
Range(seq) == {seq[i] : i \in 1..Len(seq)}

\* C6: the metadata-ref fetch is made at most 10 times and not again after the
\* first success; FetchConfigException is raised for it when all 10 fetches
\* failed, and the second loop is entered only after a fetch that succeeded.
C6_FetchRetry ==
    /\ Len(fetch_results) <= 10
    /\ \A i \in 1..(Len(fetch_results) - 1) : fetch_results[i] /= 0
    /\ a_pc = "fetch_meta_over" =>
          /\ Len(fetch_results) >= 1
          /\ status = fetch_results[Len(fetch_results)]
          /\ (status /= 0 => Len(fetch_results) = 10)
    /\ (exc = "FetchConfigException" /\ ~ Has(steps, "locate")) =>
          /\ Len(fetch_results) = 10
          /\ \A i \in 1..10 : fetch_results[i] /= 0
    /\ (a_pc = "locate" /\ locate_results = <<>>) => status = 0

\* C6's case: the fetch failed twice and succeeded at the third attempt, and no
\* exception is raised.
C6_Witness ==
    /\ a_pc = "fetch_meta_over"
    /\ fetch_results = <<1, 1, 0>>
    /\ exc = "none"

\* C7: a session that started ends with the three cleanup commands, in order,
\* each run once, whatever the session came to.
C7_CleanupAlways ==
    (a_pc = "returned" /\ template) =>
       /\ Has(steps, "fetch")
       /\ Len(steps) >= 3
       /\ SubSeq(steps, Len(steps) - 2, Len(steps)) = CleanupCommands
       /\ \A c \in Range(CleanupCommands) : Times(steps, c) = 1
       /\ wc.branch = "master" /\ ~ wc.config_branch /\ ~ wc.dirty

\* C7's case: the session raised a group-creation failure and was cleaned up.
C7_Witness ==
    /\ a_pc = "returned"
    /\ exc = "CreateGroupException"
    /\ Has(steps, "branch -D config")

\* The steps that follow a detected change.
AfterChange == {"groups", "write groups", "add groups", "commit", "push"}

\* C8: when the rendered policy is the project.config fetched from the server,
\* the session goes from the diff straight to the cleanup: no group is looked
\* up or created, nothing is staged, committed or pushed, nothing is raised.
C8_UnchangedDoesNothing ==
    (Has(steps, "diff") /\ wc.rendered = wc.fetched) =>
       /\ Range(steps) \cap AfterChange = {}
       /\ meta.created = <<>>
       /\ uuids = {}
       /\ exc = "none"
       /\ a_pc \in {"finally", "returned"}
       /\ meta.policy = wc.fetched

\* C8's case: a policy that names a group was rendered to what the server has.
C8_Witness ==
    /\ a_pc = "returned"
    /\ Has(steps, "diff")
    /\ wc.rendered = wc.fetched
    /\ Len(wc.rendered) > 0

\* The group names that the first k lines of a policy file refer to.
Referenced(f, k) ==
    {GroupMatch(f[i]).group :
       i \in {j \in 1..Len(f) : j <= k /\ GroupMatch(f[j]).matched}}

\* create_groups_file has returned or raised; it raised inside its loop.
GroupsOver == Has(steps, "groups") /\ a_pc \notin {"groups", "groups_write"}
GroupsUnresolved == exc = "CreateGroupException" /\ ~ Has(steps, "add groups")

\* The pairs of the mapping file for a set of group names.
Pairs(ns) == {<<UUID(n), n>> : n \in ns}

\* C9 as stated: once create_groups_file is over, createGroup was called exactly
\* once for each referenced name the server had no UUID for and never for a
\* name it had one for, and when every name resolved the mapping file written
\* holds one pair per referenced name.
C9_CreatesEachMissingOnce ==
    GroupsOver =>
       LET refs == Referenced(wc.rendered, Len(wc.rendered)) IN
       /\ \A n \in refs :
            Times(meta.created, n) = IF n \in meta.groups_before THEN 0 ELSE 1
       /\ (~ GroupsUnresolved /\ Has(steps, "write groups")
             /\ ~ Has(steps, "reset --hard")) =>
            wc.groups = [there |-> TRUE, pairs |-> Pairs(refs)]

\* C9, amended: createGroup is never called for a name the server had a UUID
\* for, and exactly once for each name without one among the names of the lines
\* read so far, the reading ending at the first name left without UUID; when
\* every name resolved, that is every referenced name, and then the mapping
\* file is written iff a name is referenced, with one pair per referenced name.
C9_CreatesMissingUntilFailure ==
    Has(steps, "groups") =>
       LET f == wc.rendered
           k == IF a_pc = "groups" THEN line_no - 1
                ELSE IF GroupsUnresolved THEN line_no ELSE Len(f)
           seen == Referenced(f, k)
           refs == Referenced(f, Len(f))
       IN /\ \A n \in seen :
               Times(meta.created, n) = IF n \in meta.groups_before THEN 0 ELSE 1
          /\ Range(meta.created) \subseteq seen
          /\ GroupsUnresolved =>
               /\ meta.created /= <<>>
               /\ meta.created[Len(meta.created)] \notin meta.groups
               /\ \A i \in 1..(Len(meta.created) - 1) : meta.created[i] \in meta.groups
          /\ (GroupsOver /\ ~ GroupsUnresolved) =>
               /\ seen = refs
               /\ Keys(uuids) = refs
               /\ refs \subseteq meta.groups
               /\ Has(steps, "write groups") <=> refs /= {}
               /\ (Has(steps, "write groups") /\ ~ Has(steps, "reset --hard")) =>
                     wc.groups = [there |-> TRUE, pairs |-> Pairs(refs)]

\* C9's case: the policy refers to A and B, the server knew A only; B was
\* created, nothing else was, and both pairs are in the mapping file.
C9_Witness ==
    /\ a_pc = "commit"
    /\ meta.groups_before = {<<"A">>}
    /\ meta.created = << <<"B">> >>
    /\ wc.groups = [there |-> TRUE, pairs |-> Pairs({<<"A">>, <<"B">>})]

\* The commands that open each of make_local_copy's three branches, and every
\* command that publishes.
BranchOpeners == {"git clone remote_url", "git clone upstream", "git init"}
PushCommands ==
    {"push_to_gerrit", "git push --tags", "replicate",
     "git push " \o PushCopyHeads, "git push " \o PushHead}

\* C10: when make_local_copy has returned, one branch was taken and nothing was
\* pushed: for a project of the snapshot for which the server lists master the
\* clone from the server and None; else with an upstream the clone of the
\* upstream and the refs/copy/heads push; else git init and the HEAD push.
C10_BuilderBranches ==
    (pc = "push" /\ Did("make_local_copy")) =>
       /\ Cardinality({i \in 1..Len(trace) : trace[i] \in BranchOpeners}) = 1
       /\ \A c \in PushCommands : ~ Did(c)
       /\ IF name \in project_list /\ name \in gerrit.master
          THEN Did("git clone remote_url") /\ push_string = PushNone
          ELSE IF section.upstream
               THEN Did("git clone upstream") /\ push_string = PushCopyHeads
               ELSE Did("git init") /\ push_string = PushHead
       /\ Did("listProjectRefs") <=> name \in project_list

\* C10's case: the snapshot lacks the project, an upstream is configured, and
\* the builder returned the refs/copy/heads push.
C10_Witness ==
    /\ pc = "push"
    /\ Did("make_local_copy")
    /\ name \notin project_list
    /\ section.upstream
    /\ push_string = PushCopyHeads

\* The commands of the last call, without their arguments.
Cmds == [i \in 1..Len(ops) |-> ops[i].cmd]

\* C11 as stated: the second update_local_copy in a row leaves the working copy
\* as the first left it and issues nothing but the remote refresh.
C11_SecondRunOnlyRefreshes ==
    c_pc = "updated again" =>
       /\ copy = first
       /\ \A i \in 1..Len(ops) : ops[i].cmd = "remote update --prune"

\* C11, amended: the second update_local_copy in a row leaves the working copy
\* as the first left it; it lists the remotes, sets the upstream URL and
\* refreshes the remotes when upstream is tracked (it never adds the remote
\* again), removes no remote that is there when it is not, and ends with the
\* checkout of master from origin/master.
C11_SecondRunChangesNothing ==
    c_pc = "updated again" =>
       /\ copy = first
       /\ \A i \in 1..Len(ops) : ops[i].cmd /= "remote add upstream"
       /\ IF opts.track_upstream
          THEN Cmds = <<"remote", "remote set-url upstream", "remote update --prune",
                        "checkout -b master origin/master">>
          ELSE \/ Cmds = <<"remote", "checkout -b master origin/master">>
               \/ /\ Cmds = <<"remote", "remote rm upstream",
                              "checkout -b master origin/master">>
                  /\ upstream \notin first.remotes

\* C11's case: upstream is tracked and declared, the network answers, and the
\* second run found the remote, its URL and its branches as the first left them.
C11_Witness ==
    /\ c_pc = "updated again"
    /\ opts.track_upstream /\ opts.upstream /\ opts.net
    /\ copy = first
    /\ copy.url = "declared"
    /\ <<upstream, dev>> \in copy.tracking

\* The start points of the checkouts the last call issued.
CheckoutStarts == {ops[i].args[2] : i \in {j \in 1..Len(ops) : ops[j].cmd = "checkout -b"}}

\* C12: sync_upstream issues a checkout for exactly the lines of the listing
\* that are under remotes/upstream/ and hold no "->"; no local branch comes
\* from any other line.
C12_OnlyUpstreamBranches ==
    c_pc = "synced" =>
       CheckoutStarts =
          {FirstWord(listing[i]) :
             i \in {j \in 1..Len(listing) :
                      /\ StartsWith(Strip(listing[j]), remotes_ \o slash \o upstream \o slash)
                      /\ ~ Contains(listing[j], arrow)}}

\* The commands that use the upstream URL or the remote made from it.
UpstreamCommands ==
    {"git remote add upstream", "git remote add -f upstream",
     "git remote set-url upstream", "git remote update --prune", "git clone upstream",
     "sync_upstream", "git remote update upstream --prune"}

\* C13: a project with track-upstream and no upstream is reported as failed,
\* and no remote is added, nothing is fetched and no upstream sync is made for
\* it.
C13_MissingUpstreamSurfaced ==
    /\ (pc \notin {"start", "connect", "wrapper", "exited", "loop", "options",
                   "finally", "done"}
          /\ section.track_upstream /\ ~ section.upstream)
          => \A c \in UpstreamCommands : ~ Did(c)
    /\ pc = "done" =>
          \A i \in Declared :
             (configs_list[i].project \in processed
                /\ configs_list[i].track_upstream /\ ~ configs_list[i].upstream)
                => configs_list[i].project \in caught

\* C14: with an input file missing main exits with a non-zero status and has
\* neither contacted the server nor created the wrapper; with both there, a run
\* that got to its projects ends with status 0 whatever failed for them, every
\* one of them included.
C14_ExitStatus ==
    /\ (exit_status = -1) <=> (pc \notin {"exited", "done"})
    /\ ~ (conf_exists /\ project_conf_exists) =>
          /\ pc \in {"start", "exited"}
          /\ pc = "exited" => exit_status > 0
          /\ wrapper = "none" /\ project_list = {} /\ touched = {} /\ ~ failed
    /\ (conf_exists /\ project_conf_exists) =>
          /\ pc = "done" => exit_status = 0
          /\ (wrapper /= "none" \/ processed /= {} \/ caught /= {}) => pc /= "exited"

\* C14's case: both files are there, every declared project failed, and the
\* run ended with status 0.
C14_Witness ==
    /\ exit_status = 0
    /\ conf_exists /\ project_conf_exists
    /\ Len(configs_list) >= 2
    /\ \A i \in Declared : configs_list[i].project \in caught

\* C15: main's last step for a project runs a sync session exactly when the
\* template is a file of the policy directory, and otherwise calls
\* updateProject exactly when a description is declared.
C15_TemplateDecidesSession ==
    [][pc = "acl" =>
         LET session == \E i \in 1..Len(trace') : trace'[i] = "acl session"
             described == \E i \in 1..Len(trace') : trace'[i] = "updateProject"
         IN /\ session <=> acl_found'.dir
            /\ acl_found'.dir => ~ described
            /\ ~ acl_found'.dir => (described <=> section.description)]_vars

\* C16: main's step 4 calls exactly one of make_local_copy and
\* update_local_copy: make_local_copy exactly when there is no working copy or
\* createProject was called for the project in this run.
C16_BuilderOrUpdater ==
    [][pc = "local_copy" =>
         LET builder == \E i \in 1..Len(trace') :
                           trace'[i] \in {"make_local_copy", "listProjectRefs"}
             updater == \E i \in 1..Len(trace') : trace'[i] = "update_local_copy"
         IN /\ builder <=> (~ repo[name].exists \/ Did("createProject"))
            /\ updater <=> ~ builder]_vars

\* C16's case: the server had the project and the working copy was there, and
\* update_local_copy was called.
C16_Witness ==
    /\ pc = "push"
    /\ name \in project_list
    /\ Did("update_local_copy")
    /\ ~ Did("make_local_copy")

\* C17: the second loop of fetch_config makes at most 10 attempts and none
\* after the first that found project.config, an attempt finding it only when
\* its refresh and its check both succeeded; FetchConfigException is raised
\* for it when none of 10 attempts found it, and the checkout is attempted only
\* after an attempt that did.
C17_LocateRetry ==
    LET n == Len(locate_results) IN
    /\ n <= 10
    /\ \A i \in 1..(n - 1) : locate_results[i] /= "found"
    /\ a_pc = "locate_over" =>
          /\ n >= 1
          /\ locate_results[n] /= "found" => n = 10
          /\ locate_results[n] = "found" <=> (status = 0 /\ output = "project.config")
    /\ (exc = "FetchConfigException" /\ Has(steps, "locate") /\ ~ Has(steps, "checkout")) =>
          /\ n = 10
          /\ \A i \in 1..10 : locate_results[i] /= "found"
    /\ a_pc = "checkout" =>
          /\ locate_results[n] = "found"
          /\ status = 0 /\ output = "project.config"
    /\ (Has(steps, "checkout") /\ exc = "FetchConfigException") =>
          (n >= 1 /\ locate_results[n] = "found")

\* C17's case: the refresh failed, then project.config was not there, then it
\* was found, and the checkout is next.
C17_Witness ==
    /\ a_pc = "checkout"
    /\ locate_results = <<"update failed", "not found", "found">>

\* The steps of a session, in their fixed order, and those of them taken.
SessionSteps == <<"fetch", "locate", "checkout", "copy", "groups", "commit", "push">>
IsSessionStep(s) == s \in Range(SessionSteps)
Taken == SelectSeq(steps, IsSessionStep)
Cleaned == Has(steps, "reset --hard")

\* C18: the steps taken are a prefix of fetch, locate, checkout, copy, groups,
\* commit, push; the checkout is attempted once at most; the copy follows a
\* checkout that worked, the groups a change, the commit groups that all
\* resolved and were staged, the push a commit that worked; and a session that
\* came to its commit raises nothing.
C18_SessionOrder ==
    /\ Len(Taken) <= Len(SessionSteps)
    /\ Taken = SubSeq(SessionSteps, 1, Len(Taken))
    /\ Times(steps, "checkout") <= 1
    /\ (Has(steps, "locate") /\ ~ Has(steps, "checkout")) =>
          (exc = "none" \/ Len(locate_results) = 10)
    /\ (Has(steps, "copy") /\ ~ Cleaned) => (wc.config_branch /\ wc.branch = "config")
    /\ Has(steps, "groups") => wc.rendered /= wc.fetched
    /\ Has(steps, "commit") => (Has(steps, "add groups") /\ exc = "none")
    /\ a_pc = "push" => ~ wc.dirty
    /\ (Has(steps, "push") /\ ~ Cleaned) => ~ wc.dirty
    /\ (Has(steps, "commit") /\ ~ Cleaned /\ wc.dirty) =>
          (a_pc = "finally" /\ ~ Has(steps, "push") /\ meta.policy = wc.fetched)

\* C18's case: the commit failed, nothing was pushed or raised, and the
\* session is over.
C18_Witness ==
    /\ a_pc = "returned"
    /\ Has(steps, "commit")
    /\ ~ Has(steps, "push")
    /\ exc = "none"

\* C19: in a session where the policy changed, CreateGroupException is raised
\* exactly when a referenced group has no UUID after its lookup, its creation
\* and its second lookup; a policy whose groups all resolve, or that refers to
\* none, goes on to the commit.
C19_GroupFailureOnlyUnresolved ==
    LET refs == Referenced(wc.rendered, Len(wc.rendered)) IN
    /\ exc = "CreateGroupException" => \E n \in refs : n \notin meta.groups
    /\ (GroupsOver /\ refs \subseteq meta.groups) =>
          /\ exc = "none"
          /\ a_pc = "commit" \/ Has(steps, "commit")

\* C20: whatever create_local_mirror came to, in this run or an earlier one,
\* the mirror path of a project holds nothing or a bare repository that was
\* fully initialized and handed to the system account.
C20_MirrorAbsentOrComplete ==
    \A n \in Names : mirror[n] \in {"absent", "mirror"}

\* The step of main each call or command belongs to: 1 createProject, 2 the
\* mirror, 3 the working copy, 4 the first push, 5 the replication, 6 the
\* upstream sync, 7 the policy or the description.
StepOf(c) ==
    CASE c = "createProject" -> 1
      [] c \in {"git init --bare", "rm -rf git_mirror_path", "chown"} -> 2
      [] c \in {"push_to_gerrit", "git push --tags", "git push " \o PushCopyHeads,
                "git push " \o PushHead} -> 4
      [] c = "replicate" -> 5
      [] c \in {"sync_upstream", "git remote update upstream --prune", "git branch -a",
                "git push origin refs/heads/*:refs/heads/*", "git push origin --tags"} -> 6
      [] c \in {"process_acls", "acl session", "acl cleanup", "updateProject"} -> 7
      [] OTHER -> 3

\* The steps main's positions stand for.
StepsAt(p) ==
    CASE p = "create_project" -> {1}
      [] p = "mirror" -> {2}
      [] p = "local_copy" -> {3}
      [] p = "push" -> {4, 5}
      [] p = "sync" -> {6}
      [] p = "acl" -> {7}
      [] OTHER -> {}

\* C21: for a processed project, what is issued at each position belongs to
\* that position's step and the steps issued never go back; createProject is
\* called exactly when the snapshot lacks the name, push_to_gerrit and then
\* replicate exactly when it was called, sync_upstream exactly for
\* track-upstream; a step that raises ends the project.
C21_StepOrder ==
    [][StepsAt(pc) /= {} =>
         LET in(c) == \E i \in 1..Len(trace') : trace'[i] = c
             created == \E i \in 1..Len(trace) : trace[i] = "createProject"
         IN /\ Len(trace') >= Len(trace)
            /\ SubSeq(trace', 1, Len(trace)) = trace
            /\ \A i \in (Len(trace) + 1)..Len(trace') : StepOf(trace'[i]) \in StepsAt(pc)
            /\ \A i \in 1..(Len(trace') - 1) : StepOf(trace'[i]) <= StepOf(trace'[i + 1])
            /\ pc = "create_project" => (in("createProject") <=> name \notin project_list)
            /\ pc = "push" =>
                 /\ in("push_to_gerrit") <=> created
                 /\ in("replicate") <=> created
            /\ pc = "sync" => (in("sync_upstream") <=> section.track_upstream)
            /\ \/ /\ caught' = caught \cup {name}
                  /\ name \notin caught
                  /\ pc' = "loop" /\ idx' = idx + 1
               \/ /\ caught' = caught
                  /\ idx' = IF pc = "acl" THEN idx + 1 ELSE idx
                  /\ pc' = CASE pc = "create_project" -> "mirror"
                             [] pc = "mirror" -> "local_copy"
                             [] pc = "local_copy" -> "push"
                             [] pc = "push" -> "sync"
                             [] pc = "sync" -> "acl"
                             [] pc = "acl" -> "loop"]_vars

\* C21's case: a project the snapshot lacked that tracks upstream went through
\* every step.
C21_Witness ==
    /\ pc = "loop"
    /\ Did("createProject") /\ Did("git init --bare") /\ Did("make_local_copy")
    /\ Did("push_to_gerrit") /\ Did("replicate") /\ Did("sync_upstream")
    /\ Did("updateProject")

\* C22: push_to_gerrit is called for a project exactly when make_local_copy
\* ran for it in this run and returned a push string, and never with None or
\* with a push string that was not assigned.
C22_PushIffBuilderAction ==
    [][pc = "push" =>
         LET pushed == \E i \in 1..Len(trace') : trace'[i] = "push_to_gerrit"
         IN /\ pushed <=> (Did("make_local_copy") /\ push_string \notin {PushNone, "unbound"})
            /\ pushed => push_string \in {PushCopyHeads, PushHead}]_vars

\* C23: after any calls of run_command the process environment is the one the
\* process started with, and a command run with no overlay is started with it.
C23_OverlayNotKept ==
    e_calls >= 1 =>
       /\ environ = original
       /\ overlay = NoEnv => ran_with = original

====
